---- MODULE Spec2Model ----
(***************************************************************************)
(* Model of app/main.py: the assembled FastAPI application (CORS           *)
(* middleware, three included routers, the health endpoint, the            *)
(* framework's schema endpoint) and the memoising function custom_openapi, *)
(* whose statements are separate steps of concurrently running callers.    *)
(***************************************************************************)
EXTENDS Naturals, Sequences, FiniteSets

\* ------------------------------------------------------------- bounds
\* number of concurrent callers of custom_openapi
NThreads == 2
\* total number of schema computations requested (custom_openapi invocations
\* plus requests to the schema endpoint); it caps the history counters
MaxCalls == 2

Threads == 1..NThreads

\* ------------------------------------------------------------- literals
CustomTitle == "Custom title"
CustomVersion == "2.5.0"
CustomDescription == "This is a very custom OpenAPI schema"
LogoUrl == "https://fastapi.tiangolo.com/img/logo-margin/logo-teal.png"
\* FastAPI() is constructed without arguments: the framework's own metadata
DefaultTitle == "FastAPI"
DefaultVersion == "0.1.0"
DefaultDescription == ""
NoLogo == "absent"

\* settings.CLIENT_ORIGIN, and the other values a request's Origin header takes
ClientOrigin == "https://example.com"
OtherOrigin == "https://evil.example"
NoOrigin == "no Origin header"
RequestOrigins == {NoOrigin, ClientOrigin, OtherOrigin}
NoHeader == "no header"

\* origins = [settings.CLIENT_ORIGIN]
origins == <<ClientOrigin>>

\* ------------------------------------------------------------- routes
\* A path is its sequence of segments; a route matches one path exactly
\* (kind "exact") or every path below its prefix (kind "group": the routes of
\* an included router, all mounted under the prefix).
SchemaPath == <<"openapi.json">>
HealthPath == <<"api", "healthchecker">>

\* app = FastAPI(): the framework registers its schema route at construction
FrameworkRoutes ==
    <<[kind |-> "exact", path |-> SchemaPath, handler |-> "openapi",
       tag |-> "", inSchema |-> FALSE, malformed |-> FALSE]>>

AuthRouter ==
    [kind |-> "group", path |-> <<"api", "auth">>, handler |-> "auth",
     tag |-> "Auth", inSchema |-> TRUE, malformed |-> FALSE]

\* the users router mounted one segment too high
UsersRouterAtApi ==
    [kind |-> "group", path |-> <<"api">>, handler |-> "user",
     tag |-> "Users", inSchema |-> TRUE, malformed |-> FALSE]

UsersRouter ==
    [kind |-> "group", path |-> <<"api", "users">>, handler |-> "user",
     tag |-> "Users", inSchema |-> TRUE, malformed |-> FALSE]

PostsRouter ==
    [kind |-> "group", path |-> <<"api", "posts">>, handler |-> "post",
     tag |-> "Posts", inSchema |-> TRUE, malformed |-> FALSE]

HealthRoute ==
    [kind |-> "exact", path |-> HealthPath, handler |-> "root",
     tag |-> "", inSchema |-> TRUE, malformed |-> FALSE]

\* the three include_router statements, in program order
IncludedRouters == <<AuthRouter, UsersRouter, PostsRouter>>

\* app.routes once the module body has run with the routers included in the
\* order `order` (a sequence of indices into IncludedRouters)
Assemble(order) ==
    FrameworkRoutes \o [i \in 1..Len(order) |-> IncludedRouters[order[i]]]
                    \o <<HealthRoute>>

ProgramOrder == <<1, 2, 3>>

\* routes registered after startup: a well-formed one and one whose metadata
\* get_openapi cannot render
LateRoutes ==
    {[kind |-> "exact", path |-> <<"api", "late">>, handler |-> "late",
      tag |-> "", inSchema |-> TRUE, malformed |-> FALSE],
     [kind |-> "exact", path |-> <<"api", "broken">>, handler |-> "broken",
      tag |-> "", inSchema |-> TRUE, malformed |-> TRUE]}

IsPrefix(p, q) ==
    /\ Len(p) <= Len(q)
    /\ \A i \in 1..Len(p) : p[i] = q[i]

Matches(route, path) ==
    IF route.kind = "exact"
    THEN route.path = path
    ELSE IsPrefix(route.path, path) /\ Len(path) > Len(route.path)

\* the router walks the route list in registration order; the first match wins
Dispatch(rts, path) ==
    LET hits == {i \in 1..Len(rts) : Matches(rts[i], path)}
    IN  IF hits = {} THEN "not found"
        ELSE rts[CHOOSE i \in hits : \A j \in hits : i <= j].handler

\* the paths requests are made for
RequestPaths ==
    {SchemaPath, HealthPath, <<"api", "unknown">>,
     <<"api", "auth", "login">>, <<"api", "users", "me">>,
     <<"api", "posts", "1">>, <<"api", "late">>}

\* ------------------------------------------------------------- documents
None == [kind |-> "None"]

\* get_openapi(title, version, description, routes): the document is a
\* function of its arguments; it raises on a route it cannot render
CanGenerate(rts) == \A i \in 1..Len(rts) : ~rts[i].malformed

get_openapi(title, version, description, rts) ==
    [kind |-> "dict",
     info |-> [title |-> title, version |-> version,
               description |-> description, xlogo |-> NoLogo],
     paths |-> {rts[i].handler : i \in {j \in 1..Len(rts) : rts[j].inSchema}}]

\* openapi_schema["info"]["x-logo"] = {"url": ...}
InjectLogo(doc) == [doc EXCEPT !.info.xlogo = LogoUrl]

\* the check of line 9 never taking the cached branch
TruthyNever(doc) == FALSE

\* `if app.openapi_schema:` None and the empty dict are falsy
Truthy(doc) == doc.kind = "dict"


\* ------------------------------------------------------------- HTTP
Range(s) == {s[i] : i \in 1..Len(s)}

\* the middleware mounted inside the router: only routed requests get headers
AllowOriginRoutedOnly(origin, status) ==
    IF origin # NoOrigin /\ origin \in Range(origins) /\ status = 200
    THEN origin
    ELSE NoHeader

\* CORSMiddleware(allow_origins=origins, allow_credentials=True, ...): the
\* Access-Control-Allow-Origin header of a response. The middleware acts only
\* on requests that carry an Origin header and echoes an allowed origin; an
\* unhandled exception is answered (500) by the server-error layer outside it.
AllowOrigin(origin, status) ==
    IF origin # NoOrigin /\ origin \in Range(origins) /\ status # 500
    THEN origin
    ELSE NoHeader

Response(path, origin, handler, status, body) ==
    [path |-> path, origin |-> origin, handler |-> handler, status |-> status,
     body |-> body, allowOrigin |-> AllowOrigin(origin, status)]

NoResponse ==
    [path |-> <<>>, origin |-> NoOrigin, handler |-> "none", status |-> 0,
     body |-> None, allowOrigin |-> NoHeader]

\* a handler answering with another payload
rootOther == [message |-> "Hello"]

\* def root(): return {'message': 'Hello World'}
root == [message |-> "Hello World"]

NotFoundBody == [detail |-> "Not Found"]
ServerErrorBody == [detail |-> "Internal Server Error"]

\* ------------------------------------------------------------- state
VARIABLES
    routes,          \* app.routes, in registration order
    openapi_schema,  \* app.openapi_schema: None or the cached document
    pc,              \* per caller of custom_openapi: the line it is about to run
    local,           \* per caller: the local variable openapi_schema
    last,            \* the last HTTP response sent
    calls,           \* schema computations requested so far
    emptyChecks,     \* custom_openapi invocations that found the cache empty
    customGens,      \* get_openapi calls made by custom_openapi
    customRaises,    \* those of them that raised
    customStores,    \* writes of the cache made by custom_openapi
    endpointCalls,   \* requests the schema endpoint has answered
    endpointGens,    \* get_openapi calls made for the schema endpoint
    endpointRaises,  \* those of them that raised
    stored,          \* every document ever written to the cache
    returned,        \* every document custom_openapi ever returned
    endpointBodies,  \* every body the schema endpoint ever answered
    overlap,         \* a check ran while another caller was between its
                     \* check and its store
    routesChanged    \* a route was registered after startup

prog == <<routes, openapi_schema, pc, local>>
hist == <<calls, emptyChecks, customGens, customRaises, customStores,
          endpointCalls, endpointGens, endpointRaises, stored, returned,
          endpointBodies, overlap, routesChanged>>
vars == <<prog, last, hist>>

\* some get_openapi call has raised
raised == customRaises + endpointRaises > 0

\* a caller between its check (line 9, cache empty) and its store (line 20)
Critical == {"l11", "l17", "l20"}

Preempts(t) == \E u \in Threads : u # t /\ pc[u] \in Critical

InitRest ==
    /\ openapi_schema = None
    /\ pc = [t \in Threads |-> "idle"]
    /\ local = [t \in Threads |-> None]
    /\ last = NoResponse
    /\ calls = 0
    /\ emptyChecks = 0
    /\ customGens = 0
    /\ customRaises = 0
    /\ customStores = 0
    /\ endpointCalls = 0
    /\ endpointGens = 0
    /\ endpointRaises = 0
    /\ stored = {}
    /\ returned = {}
    /\ endpointBodies = {}
    /\ overlap = FALSE
    /\ routesChanged = FALSE

\* the state once the module body (lines 24-45) has run
Init ==
    /\ routes = Assemble(ProgramOrder)
    /\ InitRest

\* ------------------------------------------------------------- custom_openapi
\* line 9: if app.openapi_schema:
Check(t) ==
    /\ pc[t] = "idle"
    /\ calls < MaxCalls
    /\ calls' = calls + 1
    /\ pc' = [pc EXCEPT ![t] = IF Truthy(openapi_schema) THEN "l10" ELSE "l11"]
    /\ emptyChecks' = IF Truthy(openapi_schema) THEN emptyChecks
                      ELSE emptyChecks + 1
    /\ overlap' = (overlap \/ Preempts(t))
    /\ UNCHANGED <<routes, openapi_schema, local, last, customGens,
                   customRaises, customStores, endpointCalls, endpointGens,
                   endpointRaises, stored, returned, endpointBodies,
                   routesChanged>>

\* line 10: return app.openapi_schema
ReturnCached(t) ==
    /\ pc[t] = "l10"
    /\ returned' = returned \cup {openapi_schema}
    /\ pc' = [pc EXCEPT ![t] = "idle"]
    /\ UNCHANGED <<routes, openapi_schema, local, last, calls, emptyChecks,
                   customGens, customRaises, customStores, endpointCalls,
                   endpointGens, endpointRaises, stored, endpointBodies,
                   overlap, routesChanged>>

\* get_openapi failing after the function had already published a
\* placeholder document in the cache
GenerateStoresPartial(t) ==
    /\ pc[t] = "l11"
    /\ customGens' = customGens + 1
    /\ IF CanGenerate(routes)
       THEN /\ local' = [local EXCEPT ![t] =
                   get_openapi(CustomTitle, CustomVersion, CustomDescription,
                               routes)]
            /\ pc' = [pc EXCEPT ![t] = "l17"]
            /\ UNCHANGED <<customRaises, openapi_schema, stored>>
       ELSE /\ pc' = [pc EXCEPT ![t] = "idle"]
            /\ customRaises' = customRaises + 1
            /\ openapi_schema' = get_openapi(CustomTitle, CustomVersion,
                                             CustomDescription, <<>>)
            /\ stored' = stored \cup {openapi_schema'}
            /\ UNCHANGED local
    /\ UNCHANGED <<routes, last, calls, emptyChecks, customStores,
                   endpointCalls, endpointGens, endpointRaises, returned,
                   endpointBodies, overlap, routesChanged>>

\* lines 11-16: openapi_schema = get_openapi(..., routes=app.routes); an
\* exception leaves the function at once
Generate(t) ==
    /\ pc[t] = "l11"
    /\ customGens' = customGens + 1
    /\ IF CanGenerate(routes)
       THEN /\ local' = [local EXCEPT ![t] =
                   get_openapi(CustomTitle, CustomVersion, CustomDescription,
                               routes)]
            /\ pc' = [pc EXCEPT ![t] = "l17"]
            /\ UNCHANGED customRaises
       ELSE /\ pc' = [pc EXCEPT ![t] = "idle"]
            /\ customRaises' = customRaises + 1
            /\ UNCHANGED local
    /\ UNCHANGED <<routes, openapi_schema, last, calls, emptyChecks,
                   customStores, endpointCalls, endpointGens, endpointRaises,
                   stored, returned, endpointBodies, overlap, routesChanged>>

\* lines 17-19: openapi_schema["info"]["x-logo"] = {"url": ...}
Inject(t) ==
    /\ pc[t] = "l17"
    /\ local' = [local EXCEPT ![t] = InjectLogo(local[t])]
    /\ pc' = [pc EXCEPT ![t] = "l20"]
    /\ UNCHANGED <<routes, openapi_schema, last, hist>>

\* line 20: app.openapi_schema = openapi_schema
Store(t) ==
    /\ pc[t] = "l20"
    /\ openapi_schema' = local[t]
    /\ stored' = stored \cup {local[t]}
    /\ customStores' = customStores + 1
    /\ pc' = [pc EXCEPT ![t] = "l21"]
    /\ UNCHANGED <<routes, local, last, calls, emptyChecks, customGens,
                   customRaises, endpointCalls, endpointGens, endpointRaises,
                   returned, endpointBodies, overlap, routesChanged>>

\* line 21: return app.openapi_schema (the attribute is read again)
Return(t) ==
    /\ pc[t] = "l21"
    /\ returned' = returned \cup {openapi_schema}
    /\ local' = [local EXCEPT ![t] = None]
    /\ pc' = [pc EXCEPT ![t] = "idle"]
    /\ UNCHANGED <<routes, openapi_schema, last, calls, emptyChecks,
                   customGens, customRaises, customStores, endpointCalls,
                   endpointGens, endpointRaises, stored, endpointBodies,
                   overlap, routesChanged>>

\* ------------------------------------------------------------- requests
\* @app.get('/api/healthchecker')
HealthChecker(path, origin) ==
    /\ Dispatch(routes, path) = "root"
    /\ last' = Response(path, origin, "root", 200, root)
    /\ UNCHANGED <<prog, hist>>

\* a request routed to one of the routers (their handlers are not part of
\* this file; only the dispatch and the middleware are)
RouterRequest(path, origin) ==
    /\ Dispatch(routes, path) \in {"auth", "user", "post", "late", "broken"}
    /\ last' = Response(path, origin, Dispatch(routes, path), 200,
                        [handledBy |-> Dispatch(routes, path)])
    /\ UNCHANGED <<prog, hist>>

\* a path no route matches
NotFound(path, origin) ==
    /\ Dispatch(routes, path) = "not found"
    /\ last' = Response(path, origin, "not found", 404, NotFoundBody)
    /\ UNCHANGED <<prog, hist>>

\* The schema endpoint answers with app.openapi(). main.py never assigns
\* app.openapi, so this is the method FastAPI() came with: it memoises in the
\* same attribute app.openapi_schema, with the application's own metadata.
\* The handler is a coroutine that calls it without awaiting: one step.
SchemaEndpoint(path, origin) ==
    /\ Dispatch(routes, path) = "openapi"
    /\ calls < MaxCalls
    /\ calls' = calls + 1
    /\ endpointCalls' = endpointCalls + 1
    /\ overlap' = (overlap \/ \E u \in Threads : pc[u] \in Critical)
    /\ IF Truthy(openapi_schema)
       THEN /\ last' = Response(path, origin, "openapi", 200, openapi_schema)
            /\ endpointBodies' = endpointBodies \cup {openapi_schema}
            /\ UNCHANGED <<openapi_schema, stored, endpointGens,
                           endpointRaises>>
       ELSE /\ endpointGens' = endpointGens + 1
            /\ IF CanGenerate(routes)
               THEN LET doc == get_openapi(DefaultTitle, DefaultVersion,
                                           DefaultDescription, routes)
                    IN  /\ openapi_schema' = doc
                        /\ stored' = stored \cup {doc}
                        /\ last' = Response(path, origin, "openapi", 200, doc)
                        /\ endpointBodies' = endpointBodies \cup {doc}
                        /\ UNCHANGED <<endpointRaises>>
               ELSE /\ last' = Response(path, origin, "openapi", 500,
                                        ServerErrorBody)
                    /\ endpointBodies' = endpointBodies \cup {ServerErrorBody}
                    /\ endpointRaises' = endpointRaises + 1
                    /\ UNCHANGED <<openapi_schema, stored>>
    /\ UNCHANGED <<routes, pc, local, emptyChecks, customGens, customRaises,
                   customStores, returned, routesChanged>>

\* a route registered after startup (app.routes is a plain mutable list)
AddRoute(r) ==
    /\ r \notin Range(routes)
    /\ routes' = Append(routes, r)
    /\ routesChanged' = TRUE
    /\ UNCHANGED <<openapi_schema, pc, local, last, calls, emptyChecks,
                   customGens, customRaises, customStores, endpointCalls,
                   endpointGens, endpointRaises, stored, returned,
                   endpointBodies, overlap>>

Next ==
    \/ \E t \in Threads : Check(t)
    \/ \E t \in Threads : ReturnCached(t)
    \/ \E t \in Threads : Generate(t)
    \/ \E t \in Threads : Inject(t)
    \/ \E t \in Threads : Store(t)
    \/ \E t \in Threads : Return(t)
    \/ \E p \in RequestPaths, o \in RequestOrigins : HealthChecker(p, o)
    \/ \E p \in RequestPaths, o \in RequestOrigins : RouterRequest(p, o)
    \/ \E p \in RequestPaths, o \in RequestOrigins : NotFound(p, o)
    \/ \E p \in RequestPaths, o \in RequestOrigins : SchemaEndpoint(p, o)
    \/ \E r \in LateRoutes : AddRoute(r)

Spec == Init /\ [][Next]_vars

\* ------------------------------------------------------------- assembly
\* every order in which the three include_router statements could be written
Orders ==
    {o \in [1..Len(IncludedRouters) -> 1..Len(IncludedRouters)] :
        \A i, j \in DOMAIN o : i # j => o[i] # o[j]}

InitAssembly ==
    /\ routes \in {Assemble(o) : o \in Orders}
    /\ InitRest

NextRequests ==
    \/ \E p \in RequestPaths, o \in RequestOrigins : HealthChecker(p, o)
    \/ \E p \in RequestPaths, o \in RequestOrigins : RouterRequest(p, o)
    \/ \E p \in RequestPaths, o \in RequestOrigins : NotFound(p, o)
    \/ \E p \in RequestPaths, o \in RequestOrigins : SchemaEndpoint(p, o)

\* the application assembled with the routers included in any order, serving
\* requests
SpecAssembly == InitAssembly /\ [][NextRequests]_vars

\* ------------------------------------------------------------- properties
Idle == \A t \in Threads : pc[t] = "idle"

Handlers(rts) == {rts[i].handler : i \in 1..Len(rts)}

C2_EndpointServesCustomDocument ==
    (last.handler = "openapi" /\ last.status = 200) =>
        /\ last.body.info.title = "Custom title"
        /\ last.body.info.version = "2.5.0"
        /\ last.body.info.xlogo =
               "https://fastapi.tiangolo.com/img/logo-margin/logo-teal.png"

\* C3: GET /api/healthchecker is always routed to root and answers 200 with
\* exactly {"message": "Hello World"}, whatever happened before, and answering
\* it changes nothing of the application (routes, cache, running callers).
C3_HealthFixedAndFrameless ==
    /\ [](Dispatch(routes, HealthPath) = "root")
    /\ [](last.handler = "root" =>
            /\ last.path = HealthPath
            /\ last.status = 200
            /\ last.body = [message |-> "Hello World"])
    /\ [][(last' # last /\ last'.handler = "root") =>
            /\ openapi_schema' = openapi_schema
            /\ routes' = routes
            /\ pc' = pc
            /\ local' = local
            /\ stored' = stored]_vars

\* the health endpoint answering after a schema request filled the cache and a
\* route was added, while a custom_openapi invocation is running
C3_Witness ==
    /\ last.handler = "root"
    /\ openapi_schema # None
    /\ routesChanged
    /\ endpointCalls = 1
    /\ ~Idle

\* C4 (as stated): every response, whatever the path or the outcome, carries
\* the CORS header allowing the configured client origin.
C4_EveryResponseAllowsClientOrigin ==
    last # NoResponse => last.allowOrigin = ClientOrigin

\* C4 (amended): every success or not-found response to a request whose Origin
\* header is the configured client origin, whatever the path, carries
\* Access-Control-Allow-Origin with exactly that origin.
C4_ClientOriginRequestsAllowed ==
    (last.origin = ClientOrigin /\ last.status \in {200, 404}) =>
        last.allowOrigin = ClientOrigin

\* a not-found response to a request from the client origin, with the header
C4_Witness ==
    /\ last.status = 404
    /\ last.path = <<"api", "unknown">>
    /\ last.origin = ClientOrigin
    /\ last.allowOrigin = ClientOrigin

\* C5: the assembly registers exactly three route groups, auth then users
\* then posts, at /api/auth, /api/users, /api/posts with tags Auth, Users,
\* Posts; the prefixes are pairwise disjoint and disjoint from
\* /api/healthchecker, so under every order of registration each path is
\* dispatched to the same handler group as under the program's order.
C5_ThreeDisjointGroupsOrderIrrelevant ==
    /\ [i \in 1..3 |-> <<Assemble(ProgramOrder)[i + 1].path,
                         Assemble(ProgramOrder)[i + 1].tag>>]
         = << <<(<<"api", "auth">>), "Auth">>,
              <<(<<"api", "users">>), "Users">>,
              <<(<<"api", "posts">>), "Posts">> >>
    /\ Cardinality({i \in 1..Len(Assemble(ProgramOrder)) :
                      Assemble(ProgramOrder)[i].kind = "group"}) = 3
    /\ \A i, j \in 1..Len(IncludedRouters) :
          /\ i # j => ~IsPrefix(IncludedRouters[i].path, IncludedRouters[j].path)
          /\ ~IsPrefix(IncludedRouters[i].path, HealthPath)
    /\ \A p \in RequestPaths :
          Dispatch(routes, p) = Dispatch(Assemble(ProgramOrder), p)
    /\ last # NoResponse =>
          last.handler = Dispatch(Assemble(ProgramOrder), last.path)

\* a users request served by an application assembled posts, auth, users
C5_Witness ==
    /\ routes = Assemble(<<3, 1, 2>>)
    /\ last.handler = "user"
    /\ last.path = <<"api", "users", "me">>

\* C6 (as stated): custom_openapi writes the schema cache at most once per
\* process lifetime, also when invocations run concurrently.
C6_CacheWrittenAtMostOnce == customStores <= 1

\* C6 (amended): each custom_openapi invocation writes the cache at most once
\* and only if it found it empty at its check; the cache is written at most
\* once per process lifetime when no check runs while another invocation is
\* between its check and its store (invocations that interleave there each
\* write it).
C6_WrittenOncePerEmptyCheck ==
    /\ customStores <= emptyChecks
    /\ ~overlap => Cardinality(stored) <= 1 /\ customStores <= 1

\* two invocations one after the other, one write
C6_Witness ==
    /\ ~overlap
    /\ calls = 2
    /\ endpointCalls = 0
    /\ customStores = 1
    /\ Idle

C8_CacheNeverRewritten ==
    [][(openapi_schema # None /\ openapi_schema.info.title = CustomTitle) =>
           openapi_schema' = openapi_schema]_vars

\* C8 (amended): once the cached document has been computed and no invocation
\* that found the cache empty is still between its check and its store, the
\* cache is never rewritten and every custom_openapi invocation returns that
\* document, also after the routes have changed.
C8_CacheStableOnceSettled ==
    [][(openapi_schema # None /\ \A t \in Threads : pc[t] \notin Critical) =>
           /\ openapi_schema' = openapi_schema
           /\ returned' \subseteq returned \cup {openapi_schema}
           /\ \A t \in Threads : pc'[t] \notin Critical]_vars

\* a cached document that predates a route, returned by two invocations
C8_Witness ==
    /\ openapi_schema # None
    /\ Idle
    /\ ~overlap
    /\ calls = 2
    /\ "late" \in Handlers(routes)
    /\ "late" \notin openapi_schema.paths
    /\ returned = {openapi_schema}

\* C9: whenever the cache is non-empty the stored document contains
\* info.x-logo.url (the logo is injected before the store), and what an
\* invocation returns is what is stored.
C9_StoredDocumentHasLogo ==
    /\ openapi_schema # None => openapi_schema.info.xlogo = LogoUrl
    /\ returned \subseteq stored

====
